---- MODULE Spec2Model ----
(***************************************************************************)
(* MealInsights: the nutrition rollup and shopping aggregation logic.      *)
(*                                                                         *)
(* Six state machines share this module, each with its own                *)
(* specification:                                                          *)
(*   SpecAgg      ShoppingRepository.aggregate_shopping_items              *)
(*   SpecGen      ShoppingService.generate_shopping_list and its route     *)
(*   SpecMeal     MealService.create_meal / update_meal                    *)
(*   SpecProduct  ProductService.create_product / update_product           *)
(*   SpecPure     the pure functions, each applied to inputs from bounded  *)
(*                sets                                                     *)
(*   SpecConc     two calls of aggregate_shopping_items or of              *)
(*                _calculate_meal_nutrition, interleaved step by step      *)
(*                                                                         *)
(* Conventions.  A Python str is a sequence of code points, so that        *)
(* concatenation, lower() and comparison are computed, not assumed.  A     *)
(* Python float or Decimal is an integer number of hundredths.  An         *)
(* Optional value is None (the empty tuple) or Some(v) (a 1-tuple).        *)
(***************************************************************************)
EXTENDS Integers, Sequences, FiniteSets, TLC

VARIABLES
    assignments,    \* aggregate_shopping_items: the argument list
    aggregated,     \* aggregate_shopping_items: the local dict, in insertion order
    agg_result,     \* aggregate_shopping_items: what the call ended with
    db,             \* generate_shopping_list: the rows of meal_assignments
    gen_request,    \* generate_shopping_list: the request being served
    gen_rows,       \* generate_shopping_list: the rows the query returned
    gen_response,   \* generate_shopping_list: what the route answered
    meals,          \* meals: the stored meal (meals, meal_ingredients, meal_tags rows)
    meal_request,   \* meals: the last create/update request
    meal_outcome,   \* meals: how the last create/update call ended
    products,       \* products: the stored products (products, product_tags rows)
    product_call,   \* products: the last create_product/update_product call
    product_outcome, \* products: how that call ended
    pure_call,      \* pure functions: the function applied and its arguments
    pure_result,    \* pure functions: what it returned or raised
    calls           \* two calls in flight: their arguments, positions, frames, results

vars == <<assignments, aggregated, agg_result, db, gen_request, gen_rows,
          gen_response, meals, meal_request, meal_outcome, products,
          product_call, product_outcome, pure_call, pure_result, calls>>

aggVars == <<assignments, aggregated, agg_result>>
genVars == <<db, gen_request, gen_rows, gen_response>>
mealVars == <<meals, meal_request, meal_outcome>>
productVars == <<products, product_call, product_outcome>>
pureVars == <<pure_call, pure_result>>
concVars == <<calls>>

(***************************************************************************)
(* Optional values and Python truthiness                                   *)
(***************************************************************************)
None == <<>>
Some(v) == <<v>>
IsNone(o) == o = <<>>
Get(o) == o[1]

(***************************************************************************)
(* Strings as code points                                                  *)
(***************************************************************************)
Str_Oats == <<79, 97, 116, 115>>                            \* "Oats"
Str_oats == <<111, 97, 116, 115>>                           \* "oats"
Str_Egg == <<69, 103, 103>>                                 \* "Egg"
Str_g == <<103>>                                            \* "g"
Str_kg == <<107, 103>>                                      \* "kg"
Str_50 == <<53, 48>>                                        \* "50"
Str_75 == <<55, 53>>                                        \* "75"
Str_a_handful == <<97, 32, 104, 97, 110, 100, 102, 117, 108>> \* "a handful"
Str_Market == <<77, 97, 114, 107, 101, 116>>                \* "Market"
Str_Omelette == <<79, 109, 101, 108, 101, 116, 116, 101>>   \* "Omelette"
Str_Salad == <<83, 97, 108, 97, 100>>                       \* "Salad"
Str_underscore == <<95>>                                    \* "_"
Str_dot == <<46>>                                           \* "."
Str_zzz == <<122, 122, 122>>                                \* "zzz"

IsDigit(c) == c \in 48..57

RECURSIVE DigitsValue(_)
DigitsValue(s) ==
    IF s = <<>> THEN 0
    ELSE 10 * DigitsValue(SubSeq(s, 1, Len(s) - 1)) + (s[Len(s)] - 48)

AllDigits(s) == s # <<>> /\ \A i \in 1..Len(s) : IsDigit(s[i])

DotAt(s) == {i \in 1..Len(s) : s[i] = 46}

\* float(x) succeeds: here on "ddd", "ddd.d" and "ddd.dd" (the texts the model
\* feeds it); any other text raises ValueError.
CanFloat(s) ==
    \/ AllDigits(s)
    \/ /\ Cardinality(DotAt(s)) = 1
       /\ LET d == CHOOSE i \in DotAt(s) : TRUE
          IN /\ AllDigits(SubSeq(s, 1, d - 1))
             /\ AllDigits(SubSeq(s, d + 1, Len(s)))
             /\ Len(s) - d <= 2

\* float(x), in hundredths.
FloatOf(s) ==
    IF AllDigits(s) THEN 100 * DigitsValue(s)
    ELSE LET d == CHOOSE i \in DotAt(s) : TRUE
             frac == SubSeq(s, d + 1, Len(s))
         IN 100 * DigitsValue(SubSeq(s, 1, d - 1))
            + (IF Len(frac) = 1 THEN 10 * DigitsValue(frac) ELSE DigitsValue(frac))

RECURSIVE IntToStr(_)
IntToStr(n) ==
    IF n < 10 THEN <<48 + n>> ELSE IntToStr(n \div 10) \o <<48 + (n % 10)>>

\* str(x) of a float x >= 0 given in hundredths: "125.0", "12.5", "0.13".
FloatToStr(h) ==
    LET whole == h \div 100
        frac == h % 100
    IN IntToStr(whole) \o Str_dot \o
       (IF frac % 10 = 0 THEN <<48 + (frac \div 10)>>
        ELSE <<48 + (frac \div 10), 48 + (frac % 10)>>)

(***************************************************************************)
(* Values that carry their Python type: a datetime.date and a str are      *)
(* different things to pydantic.                                           *)
(***************************************************************************)
Date(n) == [type |-> "date", ord |-> n]
\* date.max, as an ordinal above every date of the model
DateMaxOrd == 9999
IsoFormat(d) == [type |-> "str", ord |-> d.ord]

(***************************************************************************)
(* Bounds                                                                  *)
(***************************************************************************)
MaxLines == 2

(***************************************************************************)
(* ShoppingRepository.aggregate_shopping_items                             *)
(***************************************************************************)
IngredientNames == {Str_Oats, Str_oats}
Units == {Str_g, Str_kg}
QuantityTexts == {Str_50, Str_75, Str_a_handful}
ShopHints == {None, Some(Str_Market)}
MealNames == {Str_Omelette, Str_Salad}
PlannedDates == {Date(1), Date(2)}

\* One record of the assignments argument (the keys the function reads).
AssignmentLines ==
    [ingredient_name : IngredientNames, unit : Units, quantity : QuantityTexts,
     preferred_shop : ShopHints, meal_name : MealNames, planned_date : PlannedDates]

\* f"{assignment['ingredient_name']}_{assignment['unit']}"
ingredient_key(assignment) ==
    assignment.ingredient_name \o Str_underscore \o assignment.unit

KeyIndex(acc, key) == {i \in 1..Len(acc) : acc[i].key = key}

\* The dict entry created on a key's first line.
NewEntry(assignment) ==
    [key |-> ingredient_key(assignment),
     ingredient_name |-> assignment.ingredient_name,
     unit |-> assignment.unit,
     total_quantity |-> 0,
     shop_suggestion |-> assignment.preferred_shop,
     planned_meals |-> {},
     planned_dates |-> {}]

\* One iteration of the loop body on entry e.
Accumulate(e, assignment) ==
    [e EXCEPT
       !.total_quantity =
           IF CanFloat(assignment.quantity)
           THEN @ + FloatOf(assignment.quantity)
           ELSE @,
       !.planned_meals = @ \cup {assignment.meal_name},
       !.planned_dates = @ \cup {assignment.planned_date}]

RECURSIVE AggregateLoop(_, _)
AggregateLoop(lines, acc) ==
    IF lines = <<>> THEN acc
    ELSE LET a == Head(lines)
             at == KeyIndex(acc, ingredient_key(a))
             acc1 == IF at = {} THEN Append(acc, NewEntry(a)) ELSE acc
             i == CHOOSE j \in KeyIndex(acc1, ingredient_key(a)) : TRUE
         IN AggregateLoop(Tail(lines), [acc1 EXCEPT ![i] = Accumulate(@, a)])

\* list(a_set): any order of its elements.
ListsOf(S) ==
    {s \in [1..Cardinality(S) -> S] : {s[i] : i \in 1..Cardinality(S)} = S}

\* The keyword arguments of ShoppingListItem(...) for one dict entry.
ItemKwargs(e) ==
    {[ingredient_name |-> e.ingredient_name,
      total_quantity |-> FloatToStr(e.total_quantity),
      unit |-> e.unit,
      shop_suggestion |-> e.shop_suggestion,
      planned_meals |-> ms,
      planned_dates |-> ds] : ms \in ListsOf(e.planned_meals),
                              ds \in ListsOf(e.planned_dates)}

\* pydantic's validation of ShoppingListItem: the fields declared with
\* Field(...) are required, and planned_dates is list[str].
ShoppingListItemRequired == {"ingredient_id", "ingredient_name", "total_quantity", "unit"}

ShoppingListItemValid(kwargs) ==
    /\ ShoppingListItemRequired \subseteq DOMAIN kwargs
    /\ \A i \in 1..Len(kwargs.planned_dates) : kwargs.planned_dates[i].type = "str"

RECURSIVE ItemLists(_)
ItemLists(acc) ==
    IF acc = <<>> THEN {<<>>}
    ELSE {<<it>> \o rest : it \in ItemKwargs(Head(acc)), rest \in ItemLists(Tail(acc))}

Pending == [status |-> "pending", items |-> <<>>, error |-> "none"]
Returned(items) == [status |-> "returned", items |-> items, error |-> "none"]
Raised(e) == [status |-> "raised", items |-> <<>>, error |-> e]

\* The second loop: one ShoppingListItem per dict entry, the lists of the
\* sets in any order; the call raises at the first entry pydantic rejects.
ConvertToItems(acc) ==
    IF \E i \in 1..Len(acc) : \E k \in ItemKwargs(acc[i]) : ~ShoppingListItemValid(k)
    THEN {Raised("ValidationError")}
    ELSE {Returned(items) : items \in ItemLists(acc)}

\* The caller builds the argument list.
AddAssignmentLine ==
    /\ agg_result.status = "pending"
    /\ Len(assignments) < MaxLines
    /\ \E a \in AssignmentLines : assignments' = Append(assignments, a)
    /\ UNCHANGED <<aggregated, agg_result>>

\* The whole call: the loop, then the conversion to ShoppingListItem objects,
\* which raises at the first entry pydantic rejects.
aggregate_shopping_items ==
    /\ agg_result.status = "pending"
    /\ LET acc == AggregateLoop(assignments, <<>>)
       IN /\ aggregated' = acc
          /\ agg_result' \in ConvertToItems(acc)
    /\ UNCHANGED assignments

AggNext ==
    \/ AddAssignmentLine /\ UNCHANGED <<genVars, mealVars, productVars, pureVars, concVars>>
    \/ aggregate_shopping_items /\ UNCHANGED <<genVars, mealVars, productVars, pureVars, concVars>>

InitAgg ==
    /\ calls = <<>>
    /\ assignments = <<>>
    /\ aggregated = <<>>
    /\ agg_result = Pending
    /\ db = {}
    /\ gen_request = <<>>
    /\ gen_rows = <<>>
    /\ gen_response = <<>>
    /\ meals = {}
    /\ meal_request = <<>>
    /\ meal_outcome = <<>>
    /\ products = {}
    /\ product_call = <<>>
    /\ product_outcome = <<>>
    /\ pure_call = <<>>
    /\ pure_result = <<>>

SpecAgg == InitAgg /\ [][AggNext]_vars

(***************************************************************************)
(* Python str comparison, str.lower() and sorted()                         *)
(***************************************************************************)
Lower(s) == [i \in 1..Len(s) |-> IF s[i] \in 65..90 THEN s[i] + 32 ELSE s[i]]

\* a < b for two str: the first differing code point decides, a proper
\* prefix is smaller.
RECURSIVE StrLess(_, _)
StrLess(a, b) ==
    IF b = <<>> THEN FALSE
    ELSE IF a = <<>> THEN TRUE
    ELSE IF Head(a) # Head(b) THEN Head(a) < Head(b)
    ELSE StrLess(Tail(a), Tail(b))

Range(s) == {s[i] : i \in 1..Len(s)}

(***************************************************************************)
(* ShoppingService.generate_shopping_list                                  *)
(*                                                                         *)
(* The tables are as the query of get_aggregated_ingredients_for_date_range *)
(* names them.  The catalogue (meals, meal_ingredients, ingredients) is     *)
(* fixed; the calendar (meal_assignments) is the state db.                  *)
(***************************************************************************)
MaxAssignments == 2

MealTypes == {"breakfast", "snack"}
CalendarDates == {1, 2}
ServingCounts == {1, 2}

\* ingredients: id -> name
IngredientsTable ==
    [i1 |-> Str_Egg, i2 |-> Str_Oats, i3 |-> <<97, 112, 112, 108, 101>>]  \* "apple"

\* meals: id -> name
MealsTable == [m1 |-> Str_Omelette, m2 |-> Str_Salad]

\* meal_ingredients; quantity (REAL) in thousandths
MealIngredientsTable ==
    {[meal_id |-> "m1", ingredient_id |-> "i1", quantity |-> 200000, unit |-> Str_g],
     [meal_id |-> "m1", ingredient_id |-> "i3", quantity |-> 1000, unit |-> <<112, 105, 101, 99, 101>>],
     [meal_id |-> "m2", ingredient_id |-> "i1", quantity |-> 100000, unit |-> Str_g],
     [meal_id |-> "m2", ingredient_id |-> "i2", quantity |-> 50000, unit |-> Str_g],
     [meal_id |-> "m2", ingredient_id |-> "i2", quantity |-> 125, unit |-> Str_kg]}

\* One row of meal_assignments (the columns the query reads).
MealAssignmentRows ==
    [planned_date : CalendarDates, meal_type : MealTypes,
     meal_id : DOMAIN MealsTable, servings : ServingCounts]

SortKeys == {"ingredient_name", "quantity", "shop_suggestion", "meal_name",
             "planned_date"}

\* ShoppingListGenerateRequest
GenerateRequests ==
    [start_date : CalendarDates, end_date : CalendarDates,
     exclude_meal_types : {None, Some(<<"snack">>), Some(<<"snack", "breakfast">>)},
     sort_by : {None} \cup {Some(k) : k \in SortKeys}]

\* request.exclude_meal_types or []
ExcludeArg(request) ==
    IF IsNone(request.exclude_meal_types) THEN <<>>
    ELSE Get(request.exclude_meal_types)

\* Mutant: the exclude clause is never added to the query.
ExcludeClause_Dropped(ma, exclude_meal_types) == TRUE

\* AND ma.meal_type NOT IN (...), added only for a non-empty list
ExcludeClause(ma, exclude_meal_types) ==
    IF exclude_meal_types = <<>> THEN TRUE
    ELSE ma.meal_type \notin Range(exclude_meal_types)

\* WHERE ma.planned_date >= :start_date AND ma.planned_date <= :end_date {exclude_clause}
WhereClause(ma, start_date, end_date, exclude_meal_types) ==
    /\ ma.planned_date >= start_date
    /\ ma.planned_date <= end_date
    /\ ExcludeClause(ma, exclude_meal_types)

\* FROM meal_assignments ma JOIN meals m JOIN meal_ingredients mi JOIN ingredients i
\* (one joined row per assignment row and composition line of its meal)
JoinedRows(table, start_date, end_date, exclude_meal_types) ==
    {<<ma, mi>> \in table \X MealIngredientsTable :
        /\ ma.meal_id \in DOMAIN MealsTable
        /\ mi.meal_id = ma.meal_id
        /\ mi.ingredient_id \in DOMAIN IngredientsTable
        /\ WhereClause(ma, start_date, end_date, exclude_meal_types)}

\* CAST(mi.quantity AS DECIMAL(10,2)): thousandths to hundredths, half up
CastDecimal2(q) == (q + 5) \div 10

\* Mutant: the quantity is not multiplied by the servings.
LineAmount_WithoutServings(mi, ma) == CastDecimal2(mi.quantity)

\* CAST(mi.quantity AS DECIMAL(10,2)) * ma.servings
LineAmount(mi, ma) == CastDecimal2(mi.quantity) * ma.servings

RECURSIVE SumAmounts(_)
SumAmounts(rows) ==
    IF rows = {} THEN 0
    ELSE LET r == CHOOSE x \in rows : TRUE
         IN LineAmount(r[2], r[1]) + SumAmounts(rows \ {r})

\* GROUP BY i.id, i.name, mi.unit, ...
GroupKeys(rows) == {<<r[2].ingredient_id, r[2].unit>> : r \in rows}

GroupRow(rows, k) ==
    LET mine == {r \in rows : r[2].ingredient_id = k[1] /\ r[2].unit = k[2]}
    IN [ingredient_id |-> k[1],
        ingredient_name |-> IngredientsTable[k[1]],
        total_quantity |-> SumAmounts(mine),
        unit |-> k[2],
        notes |-> {MealsTable[r[1].meal_id] : r \in mine}]

\* ORDER BY i.name: ascending in the database's collation (code points, or
\* case-insensitive), rows of equal name in any order.
CollationLess(collation, a, b) ==
    IF collation = "C" THEN StrLess(a, b) ELSE StrLess(Lower(a), Lower(b))

OrderedByName(grouped) ==
    {s \in ListsOf(grouped) :
        \E collation \in {"C", "ci"} :
            \A i, j \in 1..Len(s) :
                i < j => ~CollationLess(collation, s[j].ingredient_name,
                                        s[i].ingredient_name)}

\* The result sets the query can return.
QueryResults(table, start_date, end_date, exclude_meal_types) ==
    LET rows == JoinedRows(table, start_date, end_date, exclude_meal_types)
    IN OrderedByName({GroupRow(rows, k) : k \in GroupKeys(rows)})

\* str(Decimal) of a DECIMAL with two places: "400.00"
DecimalToStr(h) ==
    IntToStr(h \div 100) \o Str_dot \o <<48 + ((h % 100) \div 10), 48 + (h % 10)>>

\* str(row.total_quantity) if row.total_quantity else "0"
TotalQuantityText(h) == IF h # 0 THEN DecimalToStr(h) ELSE <<48>>

\* The ShoppingListItem built from one row.
ShoppingItemOf(row) ==
    [ingredient_id |-> row.ingredient_id,
     ingredient_name |-> row.ingredient_name,
     total_quantity |-> TotalQuantityText(row.total_quantity),
     unit |-> row.unit,
     category |-> None,
     estimated_cost |-> None,
     notes |-> row.notes,
     shop_suggestion |-> None,
     planned_meals |-> <<>>,
     planned_dates |-> <<>>]

\* x.shop_suggestion or "zzz"
ShopKey(x) == IF IsNone(x.shop_suggestion) \/ Get(x.shop_suggestion) = <<>>
              THEN Str_zzz ELSE Get(x.shop_suggestion)

\* x.planned_meals[0] if x.planned_meals else "zzz"
MealKey(x) == IF x.planned_meals = <<>> THEN Str_zzz ELSE x.planned_meals[1]

\* Mutant: the names are compared as they are, upper case before lower case.
LessByName_CaseSensitive(x, y) == StrLess(x.ingredient_name, y.ingredient_name)

LessByName(x, y) == StrLess(Lower(x.ingredient_name), Lower(y.ingredient_name))

LessByShop(x, y) ==
    \/ StrLess(ShopKey(x), ShopKey(y))
    \/ ShopKey(x) = ShopKey(y) /\ LessByName(x, y)

\* Mutant: the numeric sort without reverse=True.
LessByQuantityDesc_Ascending(x, y) ==
    FloatOf(x.total_quantity) < FloatOf(y.total_quantity)

\* reverse=True: descending, equal elements keep their order
LessByQuantityDesc(x, y) == FloatOf(x.total_quantity) > FloatOf(y.total_quantity)

LessByQuantityText(x, y) == StrLess(x.total_quantity, y.total_quantity)

LessByMeal(x, y) == StrLess(MealKey(x), MealKey(y))

\* x.planned_dates[0] if x.planned_dates else date.max: a str of the list, or
\* a datetime.date
DateKey(x) ==
    IF x.planned_dates = <<>> THEN [type |-> "date", ord |-> DateMaxOrd]
    ELSE x.planned_dates[1]

\* sorted() compares the keys with <, which raises TypeError between a str
\* and a datetime.date; ordering a list of two or more keys of both types
\* needs such a comparison.
SortRaises(items, sort_by) ==
    /\ sort_by = "planned_date"
    /\ \E i, j \in 1..Len(items) : DateKey(items[i]).type # DateKey(items[j]).type

\* Items without planned dates all carry the key date.max.
LessByDate(x, y) ==
    /\ x.planned_dates # <<>>
    /\ y.planned_dates = <<>> \/ x.planned_dates[1].ord < y.planned_dates[1].ord

\* The order each sorted() call of _sort_shopping_items sorts by.
KeyLess(key, x, y) ==
    IF key = "ingredient_name" THEN LessByName(x, y)
    ELSE IF key = "shop_suggestion" THEN LessByShop(x, y)
    ELSE IF key = "quantity" THEN LessByQuantityDesc(x, y)
    ELSE IF key = "quantity_text" THEN LessByQuantityText(x, y)
    ELSE IF key = "meal_name" THEN LessByMeal(x, y)
    ELSE LessByDate(x, y)

\* sorted(): stable.  An element's place is the number of elements that sort
\* before it: those smaller, and those equal that come earlier in the input.
StableSort(items, key) ==
    LET n == Len(items)
        rank(i) == Cardinality({k \in 1..n :
                       \/ KeyLess(key, items[k], items[i])
                       \/ ~KeyLess(key, items[i], items[k]) /\ k < i}) + 1
    IN [p \in 1..n |-> items[CHOOSE i \in 1..n : rank(i) = p]]

_sort_shopping_items(items, sort_by) ==
    IF sort_by = "ingredient_name" THEN StableSort(items, "ingredient_name")
    ELSE IF sort_by = "shop_suggestion" THEN StableSort(items, "shop_suggestion")
    ELSE IF sort_by = "quantity" THEN
        IF \A i \in 1..Len(items) : CanFloat(items[i].total_quantity)
        THEN StableSort(items, "quantity")
        ELSE StableSort(items, "quantity_text")
    ELSE IF sort_by = "meal_name" THEN StableSort(items, "meal_name")
    ELSE IF sort_by = "planned_date" THEN StableSort(items, "planned_date")
    ELSE items

\* if request.sort_by: shopping_items = self._sort_shopping_items(...)
SortedItems(rows, request) ==
    LET shopping_items == [i \in 1..Len(rows) |-> ShoppingItemOf(rows[i])]
    IN IF IsNone(request.sort_by) THEN shopping_items
       ELSE _sort_shopping_items(shopping_items, Get(request.sort_by))

\* The route's answer: the ShoppingListResponse, or the HTTPException.
HttpOk(items) ==
    [status_code |-> 200, items |-> items, total_items |-> Len(items)]
HttpError(code) == [status_code |-> code, items |-> <<>>, total_items |-> 0]

\* The diet planner adds a calendar entry (one request is followed per run).
AddMealAssignment ==
    /\ IsNone(gen_response)
    /\ Cardinality(db) < MaxAssignments
    /\ \E ma \in MealAssignmentRows \ db : db' = db \cup {ma}
    /\ UNCHANGED <<gen_request, gen_rows, gen_response>>

\* POST /shopping/generate, query succeeding.
generate_shopping_list ==
    /\ IsNone(gen_response)
    /\ \E request \in GenerateRequests :
      \E rows \in QueryResults(db, request.start_date, request.end_date,
                               ExcludeArg(request)) :
        /\ gen_request' = Some(request)
        /\ gen_rows' = rows
        /\ gen_response' = Some(HttpOk(SortedItems(rows, request)))
        /\ UNCHANGED db

\* POST /shopping/generate, the query raising: the service wraps any exception
\* in ShoppingListGenerationError, which the route answers with 500.
generate_shopping_list_db_error ==
    /\ IsNone(gen_response)
    /\ \E request \in GenerateRequests :
        /\ gen_request' = Some(request)
        /\ gen_rows' = <<>>
        /\ gen_response' = Some(HttpError(500))
        /\ UNCHANGED db

GenNext ==
    \/ AddMealAssignment /\ UNCHANGED <<aggVars, mealVars, productVars, pureVars, concVars>>
    \/ generate_shopping_list /\ UNCHANGED <<aggVars, mealVars, productVars, pureVars, concVars>>
    \/ generate_shopping_list_db_error /\ UNCHANGED <<aggVars, mealVars, productVars, pureVars, concVars>>

InitGen ==
    /\ calls = <<>>
    /\ db = {}
    /\ gen_request = None
    /\ gen_rows = <<>>
    /\ gen_response = None
    /\ assignments = <<>>
    /\ aggregated = <<>>
    /\ agg_result = Pending
    /\ meals = {}
    /\ meal_request = <<>>
    /\ meal_outcome = <<>>
    /\ products = {}
    /\ product_call = <<>>
    /\ product_outcome = <<>>
    /\ pure_call = <<>>
    /\ pure_result = <<>>

SpecGen == InitGen /\ [][GenNext]_vars


(***************************************************************************)
(* Claims about aggregate_shopping_items (checked under SpecAgg)           *)
(***************************************************************************)
AggDone == agg_result.status # "pending"

\* The lines of the argument that share line i's (ingredient name, unit).
SameGroup(i) ==
    {j \in 1..Len(assignments) :
        /\ assignments[j].ingredient_name = assignments[i].ingredient_name
        /\ assignments[j].unit = assignments[i].unit}

RECURSIVE SumQuantities(_)
SumQuantities(J) ==
    IF J = {} THEN 0
    ELSE LET j == CHOOSE x \in J : TRUE
         IN FloatOf(assignments[j].quantity) + SumQuantities(J \ {j})

FirstOf(J) == CHOOSE j \in J : \A k \in J : j <= k

ItemsFor(i) ==
    {k \in 1..Len(agg_result.items) :
        /\ agg_result.items[k].ingredient_name = assignments[i].ingredient_name
        /\ agg_result.items[k].unit = assignments[i].unit}

EntriesFor(i) ==
    {k \in 1..Len(aggregated) :
        /\ aggregated[k].ingredient_name = assignments[i].ingredient_name
        /\ aggregated[k].unit = assignments[i].unit}

\* C1: once the aggregation has run, every (name, unit) group whose quantities
\* are all numeric has a shopping item whose total quantity is the arithmetic
\* sum of exactly the group's quantities.
C1_TotalIsSumOfGroup ==
    AggDone =>
      \A i \in 1..Len(assignments) :
        (\A j \in SameGroup(i) : CanFloat(assignments[j].quantity)) =>
          /\ ItemsFor(i) # {}
          /\ \A k \in ItemsFor(i) :
                /\ CanFloat(agg_result.items[k].total_quantity)
                /\ FloatOf(agg_result.items[k].total_quantity)
                     = SumQuantities(SameGroup(i))

\* C2: when a quantity of a group does not parse as a number, the total the
\* aggregation computes for the group is the first-encountered quantity of the
\* group, kept as the string it was.
C2_FallbackKeepsFirstQuantity ==
    AggDone =>
      \A i \in 1..Len(assignments) :
        (\E j \in SameGroup(i) : ~CanFloat(assignments[j].quantity)) =>
          \A k \in EntriesFor(i) :
            FloatToStr(aggregated[k].total_quantity)
              = assignments[FirstOf(SameGroup(i))].quantity

\* C3: the aggregation outputs exactly one shopping item per distinct
\* (ingredient name, unit) pair of its input, and no other item.
C3_OneItemPerNameUnitPair ==
    AggDone =>
      /\ \A i \in 1..Len(assignments) : Cardinality(ItemsFor(i)) = 1
      /\ \A k \in 1..Len(agg_result.items) :
            \E i \in 1..Len(assignments) : k \in ItemsFor(i)

\* C4: the shop suggestion of a group is the shop hint of its first line, in
\* input order, that has one; it is empty only when no line of the group has one.
C4_ShopIsFirstNonEmptyHint ==
    AggDone =>
      \A i \in 1..Len(assignments) :
        LET hinted == {j \in SameGroup(i) : ~IsNone(assignments[j].preferred_shop)}
        IN \A k \in EntriesFor(i) :
             aggregated[k].shop_suggestion =
               IF hinted = {} THEN None
               ELSE assignments[FirstOf(hinted)].preferred_shop

\* C5: every group has a shopping item whose planned_meals are exactly the
\* distinct meal names of its lines and whose planned_dates are exactly their
\* distinct dates as ISO date strings, each without duplicates.
C5_MealsAndIsoDatesOfGroup ==
    AggDone =>
      \A i \in 1..Len(assignments) :
        /\ ItemsFor(i) # {}
        /\ \A k \in ItemsFor(i) :
              LET it == agg_result.items[k]
              IN /\ {it.planned_meals[n] : n \in 1..Len(it.planned_meals)}
                      = {assignments[j].meal_name : j \in SameGroup(i)}
                 /\ {it.planned_dates[n] : n \in 1..Len(it.planned_dates)}
                      = {IsoFormat(assignments[j].planned_date) : j \in SameGroup(i)}
                 /\ Len(it.planned_meals)
                      = Cardinality({assignments[j].meal_name : j \in SameGroup(i)})
                 /\ Len(it.planned_dates)
                      = Cardinality({assignments[j].planned_date : j \in SameGroup(i)})

\* C6: the aggregation raises no error, whatever list it is given.
C6_AggregatorNeverRaises == agg_result.status # "raised"

(***************************************************************************)
(* Claims about generate_shopping_list (checked under SpecGen)             *)
(***************************************************************************)
GenAnswered == ~IsNone(gen_response)
GenOk == GenAnswered /\ Get(gen_response).status_code = 200

InRequestedRange(ma) ==
    /\ ma.planned_date >= Get(gen_request).start_date
    /\ ma.planned_date <= Get(gen_request).end_date

RequestedExclusions ==
    IF IsNone(Get(gen_request).exclude_meal_types) THEN {}
    ELSE Range(Get(Get(gen_request).exclude_meal_types))

\* The (assignment, composition line) pairs that should reach the list.
ContributingLines ==
    {<<ma, mi>> \in db \X MealIngredientsTable :
        /\ mi.meal_id = ma.meal_id
        /\ InRequestedRange(ma)
        /\ ma.meal_type \notin RequestedExclusions}

LinesOfItem(it) ==
    {l \in ContributingLines :
        l[2].ingredient_id = it.ingredient_id /\ l[2].unit = it.unit}

RECURSIVE SumScaled(_)
SumScaled(lines) ==
    IF lines = {} THEN 0
    ELSE LET l == CHOOSE x \in lines : TRUE
         IN CastDecimal2(l[2].quantity) * l[1].servings + SumScaled(lines \ {l})

RECURSIVE SumUnscaled(_)
SumUnscaled(lines) ==
    IF lines = {} THEN 0
    ELSE LET l == CHOOSE x \in lines : TRUE
         IN CastDecimal2(l[2].quantity) + SumUnscaled(lines \ {l})

GenItems == Get(gen_response).items

C8_EmptyRangeIsNotFound ==
    (GenAnswered /\ \A ma \in db : ~InRequestedRange(ma)) =>
        Get(gen_response).status_code = 404

MealIds == {"m1"}

Macros(protein, carbohydrates, sugar, fat, fiber, saturated_fat) ==
    [protein_g |-> protein, carbohydrates_g |-> carbohydrates, sugar_g |-> sugar,
     fat_g |-> fat, fiber_g |-> fiber, saturated_fat_g |-> saturated_fat]

\* Rows of the ingredients table (calories and macros are required fields).
IngredientStore ==
    ("i1" :> [calories_per_100g_or_ml |-> 15500,
              macros_per_100g_or_ml |-> Macros(1300, 100, 100, 1100, 0, 300),
              tags |-> {"high_protein"}]) @@
    ("i2" :> [calories_per_100g_or_ml |-> 8900,
              macros_per_100g_or_ml |-> Macros(100, 2300, 1200, 0, 300, 0),
              tags |-> {"vegan", "gluten_free"}])

\* Rows of the products table (calories and macros are optional fields).
ProductStore ==
    ("p1" :> [calories_per_100g_or_ml |-> None,
              macros_per_100g_or_ml |-> None,
              tags |-> {"vegan"}]) @@
    ("p2" :> [calories_per_100g_or_ml |-> Some(25000),
              macros_per_100g_or_ml |-> Some(Macros(800, 5000, 200, 400, 600, 100)),
              tags |-> {}]) @@
    ("p3" :> [calories_per_100g_or_ml |-> Some(6000),
              macros_per_100g_or_ml |-> None,
              tags |-> {}]) @@
    ("p4" :> [calories_per_100g_or_ml |-> None,
              macros_per_100g_or_ml |-> Some(Macros(300, 500, 500, 100, 0, 100)),
              tags |-> {}])

\* <repository>.get_by_id of the repository chosen by item_type
get_by_id(item_type, item_id) ==
    IF item_type = "ingredient"
    THEN IF item_id \in DOMAIN IngredientStore THEN Some(IngredientStore[item_id]) ELSE None
    ELSE IF item_id \in DOMAIN ProductStore THEN Some(ProductStore[item_id]) ELSE None

MealIngredient(item_id, item_type, quantity, unit) ==
    [item_id |-> item_id, item_type |-> item_type, quantity |-> quantity, unit |-> unit]

\* The ingredient lists a request may carry; the last three name an unknown
\* ingredient, an unknown product and an item type that does not exist.
IngredientLists ==
    { <<>>,
      <<MealIngredient("i1", "ingredient", 100, "g")>>,
      <<MealIngredient("i1", "ingredient", 200, "g"),
        MealIngredient("p1", "product", 2, "piece")>>,
      <<MealIngredient("p2", "product", 50, "ml")>>,
      <<MealIngredient("i1", "ingredient", 100, "g"),
        MealIngredient("x9", "ingredient", 100, "g")>>,
      <<MealIngredient("x8", "product", 50, "ml")>>,
      <<MealIngredient("p2", "recipe", 50, "ml")>> }

SuppliedCalories == {None, Some(0), Some(50000)}
SuppliedMacros == {None, Some(Macros(3000, 4000, 500, 2000, 300, 700))}
SuppliedTags == {<<>>, <<"low_carb">>}

CreateMealSchema ==
    [ingredients : IngredientLists,
     calories_total : SuppliedCalories,
     macros_total : SuppliedMacros,
     is_nutrition_calculated : BOOLEAN,
     tags : SuppliedTags]

\* fields_set is what model_dump(exclude_unset=True) keeps: a field given a
\* value is set, a field left None may have been sent as null or not sent.
UpdateMealSchema ==
    {r \in [ingredients : {None} \cup {Some(l) : l \in IngredientLists},
            calories_total : SuppliedCalories,
            macros_total : SuppliedMacros,
            is_nutrition_calculated : {None, Some(TRUE), Some(FALSE)},
            tags : {None} \cup {Some(t) : t \in SuppliedTags},
            fields_set : SUBSET {"calories_total", "macros_total",
                                 "is_nutrition_calculated"}] :
        \A f \in {"calories_total", "macros_total", "is_nutrition_calculated"} :
            ~IsNone(r[f]) => f \in r.fields_set}

\* Mutant: no line is checked.
_validate_meal_items_Unchecked(ingredients) == TRUE

\* _validate_meal_items: TRUE when no MealValidationError is raised
_validate_meal_items(ingredients) ==
    \A n \in 1..Len(ingredients) :
        /\ ingredients[n].item_type \in {"ingredient", "product"}
        /\ ~IsNone(get_by_id(ingredients[n].item_type, ingredients[n].item_id))

\* tags_from_items, as a set
TagsFromItems(lines) ==
    UNION {Get(get_by_id(l.item_type, l.item_id)).tags :
            l \in {x \in lines : ~IsNone(get_by_id(x.item_type, x.item_id))}}

\* Mutant: explicit tags replace the tags derived from the items.
MergedTags_ExplicitOnly(tags, lines) ==
    IF tags = <<>> THEN TagsFromItems(lines) ELSE Range(tags)

\* list(set(tags_from_items)) if not tags else list(set(tags + tags_from_items))
MergedTags(tags, lines) ==
    IF tags = <<>> THEN TagsFromItems(lines) ELSE Range(tags) \cup TagsFromItems(lines)

ZeroMacros == Macros(0, 0, 0, 0, 0, 0)

\* Mutant: a product without a macro profile contributes no calories either
\* (the whole line is dropped when a part is missing).
CaloriesPer100_SkipsIncomplete(meal_ingredient) ==
    LET item == Get(get_by_id(meal_ingredient.item_type, meal_ingredient.item_id))
    IN IF meal_ingredient.item_type = "ingredient"
       THEN item.calories_per_100g_or_ml
       ELSE IF IsNone(item.calories_per_100g_or_ml)
               \/ IsNone(item.macros_per_100g_or_ml) THEN 0
            ELSE Get(item.calories_per_100g_or_ml)

CaloriesPer100(meal_ingredient) ==
    LET item == Get(get_by_id(meal_ingredient.item_type, meal_ingredient.item_id))
    IN IF meal_ingredient.item_type = "ingredient"
       THEN item.calories_per_100g_or_ml
       ELSE IF IsNone(item.calories_per_100g_or_ml) THEN 0
            ELSE Get(item.calories_per_100g_or_ml)

MacrosPer100(meal_ingredient) ==
    LET item == Get(get_by_id(meal_ingredient.item_type, meal_ingredient.item_id))
    IN IF meal_ingredient.item_type = "ingredient"
       THEN item.macros_per_100g_or_ml
       ELSE IF IsNone(item.macros_per_100g_or_ml) THEN ZeroMacros
            ELSE Get(item.macros_per_100g_or_ml)

\* calories_per_100g or macros_per_100g.<nutrient> of the line's item
Per100(meal_ingredient, nutrient) ==
    IF nutrient = "calories" THEN CaloriesPer100(meal_ingredient)
    ELSE MacrosPer100(meal_ingredient)[nutrient]

\* sum over the lines of per_100 * quantity (the division by 100.0 is in Round2)
RECURSIVE NutritionLoop(_, _, _)

\* Mutant: a line whose item is not found ends the loop (break for continue).
NutritionLoop_BreakOnMissing(ingredients, n, nutrient) ==
    IF n > Len(ingredients) THEN 0
    ELSE IF IsNone(get_by_id(ingredients[n].item_type, ingredients[n].item_id))
    THEN 0
    ELSE Per100(ingredients[n], nutrient) * ingredients[n].quantity
         + NutritionLoop(ingredients, n + 1, nutrient)

NutritionLoop(ingredients, n, nutrient) ==
    IF n > Len(ingredients) THEN 0
    ELSE (IF IsNone(get_by_id(ingredients[n].item_type, ingredients[n].item_id))
          THEN 0
          ELSE Per100(ingredients[n], nutrient) * ingredients[n].quantity)
         + NutritionLoop(ingredients, n + 1, nutrient)

\* round(total, 2) of total = sum / 100.0, in hundredths
Round2(sum) == (sum + 50) \div 100

\* _calculate_meal_nutrition: the totals it writes on the meal
_calculate_meal_nutrition(ingredients) ==
    LET Total(nutrient) == Round2(NutritionLoop(ingredients, 1, nutrient))
    IN [calories_total |-> Some(Total("calories")),
        macros_total |-> Some(Macros(Total("protein_g"), Total("carbohydrates_g"),
                                     Total("sugar_g"), Total("fat_g"),
                                     Total("fiber_g"), Total("saturated_fat_g")))]

MealOk(meal_id) == [status_code |-> 200, meal_id |-> Some(meal_id)]
MealError(code) == [status_code |-> code, meal_id |-> None]

\* `not meal_data.calories_total`: None and 0.0 are both falsy
Falsy(calories_total) == IsNone(calories_total) \/ Get(calories_total) = 0

\* The condition under which create_meal computes the totals.
CreateRecalculates(meal_data) ==
    meal_data.is_nutrition_calculated /\ Falsy(meal_data.calories_total)

\* POST /meals/
create_meal ==
    /\ IsNone(meal_request)
    /\ \E meal_data \in CreateMealSchema, new_id \in MealIds \ {m.id : m \in meals} :
        /\ meal_request' = Some([op |-> "create", meal_data |-> meal_data])
        /\ IF ~_validate_meal_items(meal_data.ingredients)
           THEN /\ meal_outcome' = Some(MealError(400))
                /\ UNCHANGED meals
           ELSE LET meal == [id |-> new_id,
                             ingredients |-> Range(meal_data.ingredients),
                             calories_total |-> meal_data.calories_total,
                             macros_total |-> meal_data.macros_total,
                             is_nutrition_calculated |-> meal_data.is_nutrition_calculated,
                             tags |-> MergedTags(meal_data.tags,
                                                 Range(meal_data.ingredients))]
                    totals == _calculate_meal_nutrition(meal_data.ingredients)
                    created_meal ==
                        IF CreateRecalculates(meal_data)
                        THEN [meal EXCEPT !.calories_total = totals.calories_total,
                                          !.macros_total = totals.macros_total]
                        ELSE meal
                IN /\ meals' = meals \cup {created_meal}
                   /\ meal_outcome' = Some(MealOk(new_id))

\* The condition under which update_meal computes the totals.
UpdateRecalculates(meal_data) ==
    /\ meal_data.is_nutrition_calculated = Some(TRUE)
    /\ ~IsNone(meal_data.ingredients)

\* The Meal object update_meal hands to the repository: the fetched meal with
\* the request's lines, the fields of update_dict set on it, and the totals
\* recalculated when the condition holds.
ServiceUpdatedMeal(existing_meal, meal_id, meal_data) ==
    LET lines == IF IsNone(meal_data.ingredients)
                 THEN existing_meal.ingredients
                 ELSE Range(Get(meal_data.ingredients))
        merged == MergedTags(IF IsNone(meal_data.tags) THEN <<>>
                             ELSE Get(meal_data.tags), lines)
        Updated(field) ==
            IF field \in meal_data.fields_set
            THEN meal_data[field] ELSE existing_meal[field]
        totals == _calculate_meal_nutrition(Get(meal_data.ingredients))
        recalculated == UpdateRecalculates(meal_data)
    IN [id |-> meal_id,
        ingredients |-> lines,
        calories_total |-> IF recalculated THEN totals.calories_total
                           ELSE Updated("calories_total"),
        macros_total |-> IF recalculated THEN totals.macros_total
                         ELSE Updated("macros_total"),
        is_nutrition_calculated |->
            IF meal_data.is_nutrition_calculated = None
            THEN existing_meal.is_nutrition_calculated
            ELSE Get(meal_data.is_nutrition_calculated),
        tags |-> merged]

\* model_dump turns the supplied Macros into a dict, on which the
\* repository's .protein_g fails (unless the recalculation replaced it)
MacrosIsDict(meal_data) ==
    /\ ~UpdateRecalculates(meal_data)
    /\ ~IsNone(meal_data.macros_total)

\* is_nutrition_calculated sent as null: the column is NOT NULL
FlagIsNull(meal_data) ==
    /\ "is_nutrition_calculated" \in meal_data.fields_set
    /\ IsNone(meal_data.is_nutrition_calculated)

\* The statements MealRepository.update_meal executes on the session, in
\* order: UPDATE meals, the three DELETEs, one INSERT per line, one per tag.
UpdateStatements(meal, line_order, tag_order) ==
    << [op |-> "UPDATE meals", row |-> meal],
       [op |-> "DELETE meal_ingredients", row |-> meal.id],
       [op |-> "DELETE meal_ingredient_equivalents", row |-> meal.id],
       [op |-> "DELETE meal_tags", row |-> meal.id] >>
    \o [n \in 1..Len(line_order) |->
          [op |-> "INSERT meal_ingredients", row |-> line_order[n]]]
    \o [n \in 1..Len(tag_order) |->
          [op |-> "INSERT meal_tags", row |-> tag_order[n]]]

\* The rows of one meal after a statement.
Execute(rows, statement) ==
    CASE statement.op = "UPDATE meals" ->
            [rows EXCEPT !.calories_total = statement.row.calories_total,
                         !.macros_total = statement.row.macros_total,
                         !.is_nutrition_calculated =
                              statement.row.is_nutrition_calculated]
      [] statement.op = "DELETE meal_ingredients" -> [rows EXCEPT !.ingredients = {}]
      [] statement.op = "DELETE meal_ingredient_equivalents" -> rows
      [] statement.op = "DELETE meal_tags" -> [rows EXCEPT !.tags = {}]
      [] statement.op = "INSERT meal_ingredients" ->
            [rows EXCEPT !.ingredients = @ \cup {statement.row}]
      [] statement.op = "INSERT meal_tags" ->
            [rows EXCEPT !.tags = @ \cup {statement.row}]

\* The rows after the first k statements.
RECURSIVE ExecuteFirst(_, _, _)
ExecuteFirst(rows, statements, k) ==
    IF k = 0 THEN rows
    ELSE Execute(ExecuteFirst(rows, statements, k - 1), statements[k])

\* Mutant: the statements executed before the failure stay in the table.
Rollback_KeepsWork(committed, working) == working

\* session.commit() and session.rollback(): the table afterwards
Commit(committed, working) == working
Rollback(committed, working) == committed

\* The order the lines are inserted in: the request's, or that of the fetch.
LineOrders(meal_data, existing_meal) ==
    IF IsNone(meal_data.ingredients) THEN ListsOf(existing_meal.ingredients)
    ELSE {Get(meal_data.ingredients)}

\* PUT /meals/{meal_id}
update_meal ==
    /\ IsNone(meal_request)
    /\ \E meal_id \in MealIds, meal_data \in UpdateMealSchema :
        /\ meal_request' = Some([op |-> "update", meal_id |-> meal_id,
                                 meal_data |-> meal_data])
        /\ IF \A m \in meals : m.id # meal_id
           THEN /\ meal_outcome' = Some(MealError(404))
                /\ UNCHANGED meals
           ELSE IF ~IsNone(meal_data.ingredients)
                   /\ ~_validate_meal_items(Get(meal_data.ingredients))
           THEN /\ meal_outcome' = Some(MealError(400))
                /\ UNCHANGED meals
           ELSE LET existing_meal == CHOOSE m \in meals : m.id = meal_id
                    updated_meal == ServiceUpdatedMeal(existing_meal, meal_id, meal_data)
                    statements ==
                        UpdateStatements(updated_meal,
                            CHOOSE o \in LineOrders(meal_data, existing_meal) : TRUE,
                            CHOOSE o \in ListsOf(updated_meal.tags) : TRUE)
                    working == (meals \ {existing_meal})
                                 \cup {ExecuteFirst(existing_meal, statements,
                                                    Len(statements))}
                IN IF MacrosIsDict(meal_data)
                   THEN /\ meal_outcome' = Some(MealError(500))
                        /\ UNCHANGED meals
                   ELSE IF FlagIsNull(meal_data)
                   THEN /\ meal_outcome' = Some(MealError(404))
                        /\ meals' = Rollback(meals, meals)
                   ELSE /\ meals' = Commit(meals, working)
                        /\ meal_outcome' = Some(MealOk(meal_id))

\* PUT /meals/{meal_id} when a statement of the repository fails with an
\* SQLAlchemyError after k statements were executed: the except branch rolls
\* the session back and raises MealNotFoundError, answered 404.
update_meal_db_error ==
    /\ IsNone(meal_request)
    /\ \E meal_id \in MealIds, meal_data \in UpdateMealSchema :
        /\ \E m \in meals : m.id = meal_id
        /\ IF IsNone(meal_data.ingredients) THEN TRUE
           ELSE _validate_meal_items(Get(meal_data.ingredients))
        /\ ~MacrosIsDict(meal_data)
        /\ LET existing_meal == CHOOSE m \in meals : m.id = meal_id
               updated_meal == ServiceUpdatedMeal(existing_meal, meal_id, meal_data)
           IN \E line_order \in LineOrders(meal_data, existing_meal),
                 tag_order \in ListsOf(updated_meal.tags) :
                LET statements == UpdateStatements(updated_meal, line_order, tag_order)
                IN \E k \in 0..(Len(statements) - 1) :
                     /\ meals' = Rollback(meals,
                                     (meals \ {existing_meal})
                                       \cup {ExecuteFirst(existing_meal, statements, k)})
                     /\ meal_request' = Some([op |-> "update", meal_id |-> meal_id,
                                              meal_data |-> meal_data])
                     /\ meal_outcome' = Some(MealError(404))

\* The route hands the outcome to the client; the next call may start.
meal_response_sent ==
    /\ ~IsNone(meal_outcome)
    /\ meal_request' = None
    /\ meal_outcome' = None
    /\ UNCHANGED meals

MealNext ==
    \/ create_meal /\ UNCHANGED <<aggVars, genVars, productVars, pureVars, concVars>>
    \/ update_meal /\ UNCHANGED <<aggVars, genVars, productVars, pureVars, concVars>>
    \/ update_meal_db_error /\ UNCHANGED <<aggVars, genVars, productVars, pureVars, concVars>>
    \/ meal_response_sent /\ UNCHANGED <<aggVars, genVars, productVars, pureVars, concVars>>

InitMeal ==
    /\ calls = <<>>
    /\ meals = {}
    /\ meal_request = None
    /\ meal_outcome = None
    /\ assignments = <<>>
    /\ aggregated = <<>>
    /\ agg_result = Pending
    /\ db = {}
    /\ gen_request = None
    /\ gen_rows = <<>>
    /\ gen_response = None
    /\ products = {}
    /\ product_call = <<>>
    /\ product_outcome = <<>>
    /\ pure_call = <<>>
    /\ pure_result = <<>>

SpecMeal == InitMeal /\ [][MealNext]_vars

(***************************************************************************)
(* Claims about create_meal and update_meal (checked under SpecMeal)       *)
(***************************************************************************)
MealCallOk == ~IsNone(meal_outcome) /\ Get(meal_outcome).status_code = 200
AnsweredMeal == CHOOSE m \in meals : m.id = Get(Get(meal_outcome).meal_id)

\* C10: after a successful create_meal or update_meal, the stored meal carries
\* the calories_total and the macros_total that the request supplied: totals
\* given in a request are never replaced by computed ones.
C10_SuppliedTotalsAreKept ==
    MealCallOk =>
      LET meal_data == Get(meal_request).meal_data
      IN /\ ~IsNone(meal_data.calories_total)
              => AnsweredMeal.calories_total = meal_data.calories_total
         /\ ~IsNone(meal_data.macros_total)
              => AnsweredMeal.macros_total = meal_data.macros_total

(***************************************************************************)
(* The pure functions.  SpecPure applies each of them once to arguments    *)
(* drawn from bounded sets and keeps the call and its result.              *)
(***************************************************************************)
MaxNutritionLines == 2

PureReturned(value) == [status |-> "returned", value |-> value]
PureRaised(error) == [status |-> "raised", error |-> error]

\* UnitEnum values
UnitEnum == {"g", "ml", "piece", "tbsp", "tsp", "cup", "oz", "lb", "kg", "l"}

\* Mutant: the table has lost its entry for the pound.
conversion_factors_WithoutPound ==
    [unit \in UnitEnum \ {"lb"} |->
        CASE unit \in {"g", "ml"} -> 100
          [] unit \in {"kg", "l"} -> 100000
          [] unit = "piece" -> 10000
          [] unit = "tbsp" -> 1500
          [] unit = "tsp" -> 500
          [] unit = "cup" -> 24000
          [] unit = "oz" -> 2835]

\* conversion_factors, in hundredths (28.35 is 2835)
conversion_factors ==
    [unit \in UnitEnum |->
        CASE unit \in {"g", "ml"} -> 100
          [] unit \in {"kg", "l"} -> 100000
          [] unit = "piece" -> 10000
          [] unit = "tbsp" -> 1500
          [] unit = "tsp" -> 500
          [] unit = "cup" -> 24000
          [] unit = "oz" -> 2835
          [] unit = "lb" -> 45360]

\* IngredientService._get_unit_conversion_factor
_get_unit_conversion_factor(unit) ==
    IF unit \in DOMAIN conversion_factors
    THEN PureReturned(conversion_factors[unit])
    ELSE PureRaised("ValueError")

\* What a caller may pass as a unit: the enum's values and two other strings.
UnitInputs == UnitEnum \cup {"stone", "KG"}

\* The dict's nutrient keys.
ScaledFields == {"calories", "protein_g", "carbohydrates_g", "fat_g"}

\* A stored per-100 figure (hundredths) as the whole number it is.
Whole(hundredths) == hundredths \div 100

\* IngredientService.calculate_ingredient_nutrition_for_quantity.  quantity is
\* a whole number and the per-100 figures of the store are whole numbers; the
\* nutrient values of the dict are in ten-thousandths: figure * quantity *
\* factor (in hundredths), the value divided by 100.0.
calculate_ingredient_nutrition_for_quantity(ingredient, quantity, unit) ==
    IF quantity <= 0 THEN PureRaised("InvalidQuantityError")
    ELSE IF _get_unit_conversion_factor(unit).status = "raised"
    THEN _get_unit_conversion_factor(unit)
    ELSE LET quantity_in_g_or_ml == quantity * _get_unit_conversion_factor(unit).value
             macros == ingredient.macros_per_100g_or_ml
         IN PureReturned(
              [calories |-> Whole(ingredient.calories_per_100g_or_ml) * quantity_in_g_or_ml,
               protein_g |-> Whole(macros.protein_g) * quantity_in_g_or_ml,
               carbohydrates_g |-> Whole(macros.carbohydrates_g) * quantity_in_g_or_ml,
               fat_g |-> Whole(macros.fat_g) * quantity_in_g_or_ml,
               quantity |-> quantity,
               unit |-> unit])

QuantityInputs == {0, 1, 100}

\* The composition lines _calculate_meal_nutrition is applied to: found and
\* dangling items, products with and without a profile, two units.
NutritionLines ==
    {MealIngredient(item[1], item[2], quantity, unit) :
        item \in {<<"i1", "ingredient">>, <<"x9", "ingredient">>,
                  <<"p1", "product">>, <<"p2", "product">>,
                  <<"p3", "product">>, <<"p4", "product">>, <<"x8", "product">>},
        quantity \in {1, 10},
        unit \in {"g", "kg"}}

RECURSIVE SeqsUpTo(_, _)
SeqsUpTo(S, n) ==
    IF n = 0 THEN {<<>>}
    ELSE SeqsUpTo(S, n - 1)
           \cup {Append(q, x) : q \in {r \in SeqsUpTo(S, n - 1) : Len(r) = n - 1}, x \in S}

call_calculate_meal_nutrition ==
    /\ IsNone(pure_call)
    /\ \E ingredients \in SeqsUpTo(NutritionLines, MaxNutritionLines) :
        /\ pure_call' = Some([fn |-> "_calculate_meal_nutrition",
                              ingredients |-> ingredients])
        /\ pure_result' = Some(PureReturned(_calculate_meal_nutrition(ingredients)))

call_get_unit_conversion_factor ==
    /\ IsNone(pure_call)
    /\ \E unit \in UnitInputs :
        /\ pure_call' = Some([fn |-> "_get_unit_conversion_factor", unit |-> unit])
        /\ pure_result' = Some(_get_unit_conversion_factor(unit))

call_calculate_ingredient_nutrition_for_quantity ==
    /\ IsNone(pure_call)
    /\ \E id \in DOMAIN IngredientStore, quantity \in QuantityInputs, unit \in UnitInputs :
        /\ pure_call' = Some([fn |-> "calculate_ingredient_nutrition_for_quantity",
                              ingredient |-> IngredientStore[id],
                              quantity |-> quantity, unit |-> unit])
        /\ pure_result' = Some(calculate_ingredient_nutrition_for_quantity(
                                  IngredientStore[id], quantity, unit))

MaxSortItems == 2

Str_9 == <<57>>
Str_60 == <<54, 48>>
Str_apple == <<97, 112, 112, 108, 101>>

Str_Zabka == <<379, 97, 98, 107, 97>>                       \* "Żabka"

\* A ShoppingListItem.
ShoppingListItem(name, quantity, shop, planned_meals, planned_dates) ==
    [ingredient_id |-> "i1",
     ingredient_name |-> name,
     total_quantity |-> quantity,
     unit |-> Str_g,
     category |-> None,
     estimated_cost |-> None,
     notes |-> {},
     shop_suggestion |-> shop,
     planned_meals |-> planned_meals,
     planned_dates |-> planned_dates]

\* The planned_meals and planned_dates an item may carry: lists of str, the
\* dates in ISO format, in either order.
PlannedLists ==
    {<< <<Str_Omelette>>, <<IsoFormat(Date(1))>> >>,
     << <<Str_Salad>>, <<IsoFormat(Date(2))>> >>,
     << <<Str_Omelette, Str_Salad>>, <<IsoFormat(Date(1)), IsoFormat(Date(2))>> >>,
     << <<Str_Salad, Str_Omelette>>, <<IsoFormat(Date(2)), IsoFormat(Date(1))>> >>}

\* The ShoppingListItem values _sort_shopping_items is applied to: items that
\* differ in name and quantity, items with a shop, items with meals and dates.
SortItems ==
    {ShoppingListItem(name, quantity, None, <<>>, <<>>) :
        name \in {Str_Egg, Str_Oats, Str_oats, Str_apple},
        quantity \in {Str_50, Str_9, Str_60, Str_a_handful}}
    \cup {ShoppingListItem(name, Str_50, Some(shop), <<>>, <<>>) :
        name \in {Str_Egg, Str_oats}, shop \in {Str_Market, Str_Zabka}}
    \cup {ShoppingListItem(name, Str_50, None, planned[1], planned[2]) :
        name \in {Str_Egg, Str_oats}, planned \in PlannedLists}

call_sort_shopping_items ==
    /\ IsNone(pure_call)
    /\ \E items \in SeqsUpTo(SortItems, MaxSortItems), sort_by \in SortKeys :
        /\ pure_call' = Some([fn |-> "_sort_shopping_items",
                              items |-> items, sort_by |-> sort_by])
        /\ pure_result' = Some(IF SortRaises(items, sort_by)
                               THEN PureRaised("TypeError")
                               ELSE PureReturned(_sort_shopping_items(items, sort_by)))

(***************************************************************************)
(* ShoppingService.export_shopping_list_text                               *)
(***************************************************************************)
MaxExportItems == 3

Str_dairy == <<100, 97, 105, 114, 121>>                    \* "dairy"
Str_bakery == <<98, 97, 107, 101, 114, 121>>             \* "bakery"
Str_bullet == <<8226, 32>>                                  \* "• "
Str_colon == <<58, 32>>                                     \* ": "
Str_space == <<32>>                                         \* " "
Str_at == <<32, 40, 97, 116, 32>>                                \* " (at "
Str_close == <<41>>                                         \* ")"
Str_rule_open == <<45, 45, 45, 32>>                              \* "--- "
Str_rule_close == <<32, 45, 45, 45>>                             \* " ---"
Str_OTHER == <<79, 84, 72, 69, 82>>                        \* "OTHER"
Str_title == <<83, 104, 111, 112, 112, 105, 110, 103, 32, 76, 105, 115, 116, 32, 45, 32>>  \* "Shopping List - "
Str_to == <<32, 116, 111, 32>>                                    \* " to "
Str_generated_on == <<71, 101, 110, 101, 114, 97, 116, 101, 100, 32, 111, 110, 58, 32>>  \* "Generated on: "
Str_total_items == <<84, 111, 116, 97, 108, 32, 73, 116, 101, 109, 115, 58, 32>>  \* "Total Items: "
Str_cost == <<69, 115, 116, 105, 109, 97, 116, 101, 100, 32, 84, 111, 116, 97, 108, 32, 67, 111, 115, 116, 58, 32, 36>>  \* "Estimated Total Cost: $"
Str_2024_01_0 == <<50, 48, 50, 52, 45, 48, 49, 45, 48>>         \* "2024-01-0"

\* str.upper() on the letters the model uses
Upper(s) == [i \in 1..Len(s) |-> IF s[i] \in 97..122 THEN s[i] - 32 ELSE s[i]]

\* str(a datetime.date): the model's day n is 2024-01-0n
DateToStr(d) == Str_2024_01_0 \o <<48 + d.ord>>

\* The items a list to export holds: with and without a category, with and
\* without a shop.
ExportItems ==
    {[ShoppingListItem(name, Str_50, None, <<>>, <<>>) EXCEPT !.category = category] :
        name \in {Str_Egg, Str_oats},
        category \in {None, Some(Str_dairy), Some(Str_bakery)}}
    \cup {[ShoppingListItem(Str_Egg, Str_9, Some(Str_Market), <<>>, <<>>)
              EXCEPT !.category = Some(Str_dairy)],
          ShoppingListItem(Str_oats, Str_9, Some(Str_Market), <<>>, <<>>)}

\* set(item.category for item in shopping_items if item.category)
CategoriesOf(shopping_items) ==
    {Get(shopping_items[i].category) : i \in {n \in 1..Len(shopping_items) :
        /\ ~IsNone(shopping_items[n].category)
        /\ Get(shopping_items[n].category) # <<>>}}

\* The ShoppingListResponse generate_shopping_list builds around the items;
\* categories is list(a set), in any order.
ShoppingListResponses(shopping_items) ==
    {[items |-> shopping_items,
      summary |-> [total_items |-> Len(shopping_items),
                   total_estimated_cost |-> None,
                   categories |-> categories,
                   date_range_start |-> Date(1),
                   date_range_end |-> Date(2)],
      generated_at |-> Date(2)] : categories \in ListsOf(CategoriesOf(shopping_items))}

\* The bullet line of one item.
ItemLine(item) ==
    Str_bullet \o item.ingredient_name \o Str_colon \o item.total_quantity
      \o Str_space \o item.unit
      \o (IF ~IsNone(item.shop_suggestion) /\ Get(item.shop_suggestion) # <<>>
          THEN Str_at \o Get(item.shop_suggestion) \o Str_close
          ELSE <<>>)

ItemLines(items) == [n \in 1..Len(items) |-> ItemLine(items[n])]

\* [item for item in shopping_list.items if item.category == category]
IsOfCategory(item, category) == item.category = Some(category)
CategoryItems(items, category) ==
    SelectSeq(items, LAMBDA item : IsOfCategory(item, category))

\* Mutant: the items without a category are left out.
Uncategorized_Dropped(items) == <<>>

\* [item for item in shopping_list.items if not item.category]
Uncategorized(items) ==
    SelectSeq(items, LAMBDA item : IsNone(item.category) \/ item.category = Some(<<>>))

\* sorted(shopping_list.summary.categories)
SortedCategories(categories) ==
    LET n == Len(categories)
        rank(i) == Cardinality({k \in 1..n :
                       \/ StrLess(categories[k], categories[i])
                       \/ categories[k] = categories[i] /\ k < i}) + 1
    IN [p \in 1..n |-> categories[CHOOSE i \in 1..n : rank(i) = p]]

\* The lines of the category sections, for the sorted categories from the
\* n-th on.
RECURSIVE CategorySections(_, _, _)
CategorySections(items, categories, n) ==
    IF n > Len(categories) THEN <<>>
    ELSE (IF CategoryItems(items, categories[n]) # <<>>
          THEN <<Str_rule_open \o Upper(categories[n]) \o Str_rule_close>>
                 \o ItemLines(CategoryItems(items, categories[n])) \o << <<>> >>
          ELSE <<>>)
         \o CategorySections(items, categories, n + 1)

\* "\n".join(text_lines)
RECURSIVE JoinLines(_)
JoinLines(text_lines) ==
    IF text_lines = <<>> THEN <<>>
    ELSE IF Len(text_lines) = 1 THEN text_lines[1]
    ELSE text_lines[1] \o <<10>> \o JoinLines(Tail(text_lines))

\* f"{total_estimated_cost:.2f}"
Format2f(h) == DecimalToStr(h)

export_shopping_list_text(shopping_list) ==
    LET summary == shopping_list.summary
        header == << Str_title \o DateToStr(summary.date_range_start)
                       \o Str_to \o DateToStr(summary.date_range_end),
                     Str_generated_on \o DateToStr(shopping_list.generated_at),
                     Str_total_items \o IntToStr(summary.total_items),
                     <<>> >>
        cost == IF ~IsNone(summary.total_estimated_cost)
                   /\ Get(summary.total_estimated_cost) # 0
                THEN << Str_cost \o Format2f(Get(summary.total_estimated_cost)), <<>> >>
                ELSE <<>>
        body == IF summary.categories # <<>>
                THEN CategorySections(shopping_list.items,
                                      SortedCategories(summary.categories), 1)
                     \o (IF Uncategorized(shopping_list.items) # <<>>
                         THEN <<Str_rule_open \o Str_OTHER \o Str_rule_close>>
                                \o ItemLines(Uncategorized(shopping_list.items))
                         ELSE <<>>)
                ELSE ItemLines(shopping_list.items)
    IN JoinLines(header \o cost \o body)

call_export_shopping_list_text ==
    /\ IsNone(pure_call)
    /\ \E shopping_items \in SeqsUpTo(ExportItems, MaxExportItems) :
         \E shopping_list \in ShoppingListResponses(shopping_items) :
            /\ pure_call' = Some([fn |-> "export_shopping_list_text",
                                  shopping_list |-> shopping_list])
            /\ pure_result' = Some(PureReturned(export_shopping_list_text(shopping_list)))

PureNext ==
    \/ call_export_shopping_list_text /\ UNCHANGED <<aggVars, genVars, mealVars, productVars, concVars>>
    \/ call_calculate_meal_nutrition /\ UNCHANGED <<aggVars, genVars, mealVars, productVars, concVars>>
    \/ call_get_unit_conversion_factor /\ UNCHANGED <<aggVars, genVars, mealVars, productVars, concVars>>
    \/ call_calculate_ingredient_nutrition_for_quantity
         /\ UNCHANGED <<aggVars, genVars, mealVars, productVars, concVars>>
    \/ call_sort_shopping_items /\ UNCHANGED <<aggVars, genVars, mealVars, productVars, concVars>>

InitPure ==
    /\ calls = <<>>
    /\ pure_call = None
    /\ pure_result = None
    /\ assignments = <<>>
    /\ aggregated = <<>>
    /\ agg_result = Pending
    /\ db = {}
    /\ gen_request = None
    /\ gen_rows = <<>>
    /\ gen_response = None
    /\ meals = {}
    /\ meal_request = None
    /\ meal_outcome = None
    /\ products = {}
    /\ product_call = None
    /\ product_outcome = None

SpecPure == InitPure /\ [][PureNext]_vars

(***************************************************************************)
(* Two calls in flight.  Each call of aggregate_shopping_items binds a new *)
(* dict to its local name aggregated, each call of                         *)
(* _calculate_meal_nutrition new floats to its local totals; the loops run *)
(* one iteration at a time and the two calls interleave in any way.        *)
(***************************************************************************)
MaxConcLines == 2

CallIds == {1, 2}

\* The assignment lines and the composition lines the two calls get.
ConcAssignmentLines ==
    {a \in AssignmentLines :
        /\ a.unit = Str_g
        /\ a.preferred_shop = None
        /\ a.meal_name = Str_Omelette
        /\ a.planned_date = Date(1)
        /\ <<a.ingredient_name, a.quantity>>
             \in {<<Str_Oats, Str_50>>, <<Str_Oats, Str_75>>, <<Str_oats, Str_50>>}}

ConcNutritionLines ==
    {l \in NutritionLines : l.unit = "g" /\ l.quantity = 10
                             /\ l.item_id \in {"i1", "p3", "x9"}}

ConcInputs(kind) ==
    IF kind = "aggregate_shopping_items"
    THEN SeqsUpTo(ConcAssignmentLines, MaxConcLines)
    ELSE SeqsUpTo(ConcNutritionLines, MaxConcLines)

NutrientNames == {"calories"} \cup DOMAIN ZeroMacros

\* Mutant: one accumulator for all calls (a module-level dict, module-level
\* totals).
Frame_Shared(c) == 1

\* The frame that holds a call's local names: its own.
Frame(c) == c

\* aggregated = {}  /  total_calories = 0.0 ... total_saturated_fat = 0.0
NewAccumulator(kind) ==
    IF kind = "aggregate_shopping_items" THEN <<>>
    ELSE [nutrient \in NutrientNames |-> 0]

\* One iteration of the call's loop.
LoopBody(kind, acc, line) ==
    IF kind = "aggregate_shopping_items" THEN AggregateLoop(<<line>>, acc)
    ELSE IF IsNone(get_by_id(line.item_type, line.item_id)) THEN acc
    ELSE [nutrient \in NutrientNames |->
             acc[nutrient] + Per100(line, nutrient) * line.quantity]

\* What the call ends with, given the accumulator after the loop.
CallOutcomes(kind, acc) ==
    IF kind = "aggregate_shopping_items" THEN ConvertToItems(acc)
    ELSE {[calories_total |-> Some(Round2(acc["calories"])),
           macros_total |-> Some(Macros(Round2(acc["protein_g"]),
                                        Round2(acc["carbohydrates_g"]),
                                        Round2(acc["sugar_g"]),
                                        Round2(acc["fat_g"]),
                                        Round2(acc["fiber_g"]),
                                        Round2(acc["saturated_fat_g"])))]}

\* pc of a call: 0 not entered, n at the n-th line, Len + 1 at the end of the
\* loop, Len + 2 returned.
InFlight(c) == calls.pc[c] >= 1 /\ calls.pc[c] <= Len(calls.input[c]) + 1
Done(c) == calls.pc[c] = Len(calls.input[c]) + 2
Other(c) == 3 - c

\* The two calls have been in flight at the same time.
Overlap(c) == calls.overlapped \/ InFlight(Other(c))

EnterCall(c) ==
    /\ calls.pc[c] = 0
    /\ calls' = [calls EXCEPT !.pc[c] = 1,
                              !.frames[Frame(c)] = NewAccumulator(calls.kind),
                              !.overlapped = Overlap(c)]

LoopIteration(c) ==
    /\ calls.pc[c] >= 1
    /\ calls.pc[c] <= Len(calls.input[c])
    /\ calls' = [calls EXCEPT !.pc[c] = @ + 1,
                              !.frames[Frame(c)] =
                                  LoopBody(calls.kind, @, calls.input[c][calls.pc[c]]),
                              !.overlapped = Overlap(c)]

ReturnFromCall(c) ==
    /\ calls.pc[c] = Len(calls.input[c]) + 1
    /\ \E outcome \in CallOutcomes(calls.kind, calls.frames[Frame(c)]) :
         calls' = [calls EXCEPT !.pc[c] = @ + 1,
                                !.result[c] = Some(outcome),
                                !.overlapped = Overlap(c)]

ConcNext ==
    \/ (\E c \in CallIds : EnterCall(c))
         /\ UNCHANGED <<aggVars, genVars, mealVars, productVars, pureVars>>
    \/ (\E c \in CallIds : LoopIteration(c))
         /\ UNCHANGED <<aggVars, genVars, mealVars, productVars, pureVars>>
    \/ (\E c \in CallIds : ReturnFromCall(c))
         /\ UNCHANGED <<aggVars, genVars, mealVars, productVars, pureVars>>

InitConc ==
    /\ \E kind \in {"aggregate_shopping_items", "_calculate_meal_nutrition"} :
         \E first \in ConcInputs(kind), second \in ConcInputs(kind) :
            calls = [kind |-> kind,
                     input |-> <<first, second>>,
                     pc |-> <<0, 0>>,
                     frames |-> <<NewAccumulator(kind), NewAccumulator(kind)>>,
                     result |-> <<None, None>>,
                     overlapped |-> FALSE]
    /\ assignments = <<>>
    /\ aggregated = <<>>
    /\ agg_result = Pending
    /\ db = {}
    /\ gen_request = None
    /\ gen_rows = <<>>
    /\ gen_response = None
    /\ meals = {}
    /\ meal_request = None
    /\ meal_outcome = None
    /\ products = {}
    /\ product_call = None
    /\ product_outcome = None
    /\ pure_call = None
    /\ pure_result = None

SpecConc == InitConc /\ [][ConcNext]_vars

(***************************************************************************)
(* Claims about the nutrition functions (checked under SpecPure)           *)
(***************************************************************************)
PureCallIs(fn) == ~IsNone(pure_call) /\ Get(pure_call).fn = fn
PureArgs == Get(pure_call)
PureValue == Get(pure_result).value

\* The line with its quantity expressed in the base unit.
InBaseUnits(line) ==
    [line EXCEPT !.quantity = (@ * conversion_factors[line.unit]) \div 100,
                 !.unit = "g"]

\* C11: the totals computed for a list of lines equal the totals computed for
\* the same lines with every quantity converted to base units (1 kg of an item
\* contributes what 1000 g of it contribute).
C11_QuantitiesAreConvertedToBaseUnits ==
    PureCallIs("_calculate_meal_nutrition") =>
        PureValue = _calculate_meal_nutrition(
                        [n \in 1..Len(PureArgs.ingredients) |->
                            InBaseUnits(PureArgs.ingredients[n])])

\* The line's item is a row of the table its item_type names.
InCatalog(line) ==
    IF line.item_type = "ingredient" THEN line.item_id \in DOMAIN IngredientStore
    ELSE line.item_id \in DOMAIN ProductStore

ZeroTotals == [calories_total |-> Some(0), macros_total |-> Some(ZeroMacros)]

CatalogTags(line) ==
    IF line.item_type = "ingredient" THEN IngredientStore[line.item_id].tags
    ELSE ProductStore[line.item_id].tags

\* The tags the caller supplied in the last request.
ExplicitTags ==
    LET meal_data == Get(meal_request).meal_data
    IN IF Get(meal_request).op = "create" THEN Range(meal_data.tags)
       ELSE IF IsNone(meal_data.tags) THEN {}
       ELSE Range(Get(meal_data.tags))

ProductIds == {"p9"}

\* IngredientQuantity: the ingredient (by id) and the amount
IngredientQuantity(ingredient_id, quantity) ==
    [ingredient_id |-> ingredient_id, quantity |-> quantity]

ProductIngredientLists ==
    {None, Some(<<>>),
     Some(<<IngredientQuantity("i1", 100)>>),
     Some(<<IngredientQuantity("i1", 100), IngredientQuantity("i2", 50)>>),
     Some(<<IngredientQuantity("i2", 0)>>)}

ProductNames == {"Muesli", " "}
ProductCalories == {None, Some(25000), Some(-100)}
ProductTags == {None, Some(<<>>), Some(<<"low_carb">>)}

\* not name or not name.strip()
BlankName(name) == name \in {"", " "}

\* _validate_product_data: the exception it raises, or None
_validate_product_data(name, calories, ingredients) ==
    IF BlankName(name) THEN Some("ValueError")
    ELSE IF ~IsNone(calories) /\ Get(calories) < 0 THEN Some("ValueError")
    ELSE IF ~IsNone(ingredients)
            /\ \E n \in 1..Len(Get(ingredients)) : Get(ingredients)[n].quantity <= 0
    THEN Some("InvalidQuantityError")
    ELSE None

\* ProductRepository.create applied to the dict the service passes: the first
\* statement reads product_create.id, which a dict does not have.  Nothing is
\* executed on the session.
ProductRepository_create(table, product_data) ==
    [raised |-> "AttributeError", table |-> table]

\* ProductRepository.update(product_update) called with two arguments.
ProductRepository_update(table, product_id, update_data) ==
    [raised |-> "TypeError", table |-> table]

create_product ==
    /\ IsNone(product_call)
    /\ \E name \in ProductNames, calories \in ProductCalories,
          ingredients \in ProductIngredientLists, tags \in ProductTags :
        LET invalid == _validate_product_data(name, calories, ingredients)
            product_data == [name |-> name,
                             calories_per_100g_or_ml |-> calories,
                             ingredients |-> IF IsNone(ingredients) THEN <<>>
                                             ELSE Get(ingredients),
                             tags |-> IF IsNone(tags) THEN <<>> ELSE Get(tags)]
            created == ProductRepository_create(products, product_data)
        IN /\ product_call' = Some([op |-> "create", name |-> name,
                                    calories_per_100g_or_ml |-> calories,
                                    ingredients |-> ingredients, tags |-> tags])
           /\ IF ~IsNone(invalid)
              THEN /\ product_outcome' = Some(PureRaised(Get(invalid)))
                   /\ UNCHANGED products
              ELSE /\ product_outcome' = Some(PureRaised(created.raised))
                   /\ products' = created.table

update_product ==
    /\ IsNone(product_call)
    /\ \E product_id \in ProductIds, name \in {None} \cup {Some(n) : n \in ProductNames},
          calories \in ProductCalories, ingredients \in ProductIngredientLists,
          tags \in ProductTags :
        LET invalid ==
                IF ~IsNone(name) /\ BlankName(Get(name)) THEN Some("ValueError")
                ELSE _validate_product_data("x", calories, ingredients)
            update_data == {f \in {"name", "calories_per_100g_or_ml", "ingredients", "tags"} :
                              ~IsNone([name |-> name, calories_per_100g_or_ml |-> calories,
                                       ingredients |-> ingredients, tags |-> tags][f])}
            updated == ProductRepository_update(products, product_id, update_data)
        IN /\ product_call' = Some([op |-> "update", product_id |-> product_id,
                                    name |-> name, calories_per_100g_or_ml |-> calories,
                                    ingredients |-> ingredients, tags |-> tags])
           /\ IF ~IsNone(invalid)
              THEN /\ product_outcome' = Some(PureRaised(Get(invalid)))
                   /\ UNCHANGED products
              ELSE IF update_data = {}
              THEN /\ product_outcome' =
                        Some(PureReturned({q \in products : q.id = product_id}))
                   /\ UNCHANGED products
              ELSE /\ product_outcome' = Some(PureRaised(updated.raised))
                   /\ products' = updated.table

ProductNext ==
    \/ create_product /\ UNCHANGED <<aggVars, genVars, mealVars, pureVars, concVars>>
    \/ update_product /\ UNCHANGED <<aggVars, genVars, mealVars, pureVars, concVars>>

InitProduct ==
    /\ calls = <<>>
    /\ products = {}
    /\ product_call = None
    /\ product_outcome = None
    /\ assignments = <<>>
    /\ aggregated = <<>>
    /\ agg_result = Pending
    /\ db = {}
    /\ gen_request = None
    /\ gen_rows = <<>>
    /\ gen_response = None
    /\ meals = {}
    /\ meal_request = None
    /\ meal_outcome = None
    /\ pure_call = None
    /\ pure_result = None

SpecProduct == InitProduct /\ [][ProductNext]_vars

(***************************************************************************)
(* Claims about create_product and update_product (under SpecProduct)      *)
(***************************************************************************)
\* The last call passed valid data and a non-empty ingredient list.
ComposedProductCall ==
    /\ ~IsNone(product_call)
    /\ ~IsNone(Get(product_call).ingredients)
    /\ Get(Get(product_call).ingredients) # <<>>
    /\ Get(product_outcome).status = "raised"
         => Get(product_outcome).error \notin {"ValueError", "InvalidQuantityError"}

\* C14: after create_product or update_product was called with valid data and
\* a list of ingredients, the product is stored and its tag set contains the
\* tags of every one of these ingredients.
C14_ProductCarriesIngredientTags ==
    ComposedProductCall =>
        \E product \in products :
            \A n \in 1..Len(Get(Get(product_call).ingredients)) :
                IngredientStore[Get(Get(product_call).ingredients)[n].ingredient_id].tags
                    \subseteq product.tags

\* ---- C15 ----
\* A step that answers an update request for a stored meal.
UpdateAnswered ==
    /\ IsNone(meal_request)
    /\ ~IsNone(meal_request')
    /\ Get(meal_request').op = "update"
    /\ \E m \in meals : m.id = Get(meal_request').meal_id

\* The lines an update request asks for: its list, or the stored ones when
\* the request leaves the list out.
RequestedLines(request, stored) ==
    IF IsNone(request.meal_data.ingredients) THEN stored.ingredients
    ELSE Range(Get(request.meal_data.ingredients))

StoredFigure(product, nutrient) ==
    IF nutrient = "calories" THEN product.calories_per_100g_or_ml
    ELSE IF IsNone(product.macros_per_100g_or_ml) THEN None
    ELSE Some(Get(product.macros_per_100g_or_ml)[nutrient])

IsProductLine(line) ==
    line.item_type = "product" /\ line.item_id \in DOMAIN ProductStore

\* The sum, over product lines, of figure * quantity for the figures present.
RECURSIVE PresentSum(_, _)
PresentSum(lines, nutrient) ==
    IF lines = <<>> THEN 0
    ELSE LET figure == StoredFigure(ProductStore[Head(lines).item_id], nutrient)
         IN (IF IsNone(figure) THEN 0 ELSE Get(figure) * Head(lines).quantity)
            + PresentSum(Tail(lines), nutrient)

SupportedUnits == {"g", "kg", "ml", "l", "piece", "tbsp", "tsp", "cup", "oz", "lb"}

\* C17: _get_unit_conversion_factor returns a positive factor for each of the
\* ten supported units (1000 for kg, 15 for tbsp, 100 for piece; the model
\* holds factors in hundredths) and raises an unsupported-unit error, returning
\* nothing, for any other unit.
C17_ConversionIsTotalOnSupportedUnits ==
    PureCallIs("_get_unit_conversion_factor") =>
        IF PureArgs.unit \in SupportedUnits
        THEN /\ Get(pure_result).status = "returned"
             /\ PureValue > 0
             /\ PureArgs.unit = "kg" => PureValue = 1000 * 100
             /\ PureArgs.unit = "tbsp" => PureValue = 15 * 100
             /\ PureArgs.unit = "piece" => PureValue = 100 * 100
        ELSE /\ Get(pure_result).status = "raised"
             /\ Get(pure_result).error = "ValueError"

\* C17 witness: the conversion of a unit outside the set was asked for and
\* raised.
C17_Witness ==
    /\ PureCallIs("_get_unit_conversion_factor")
    /\ PureArgs.unit = "stone"
    /\ Get(pure_result).status = "raised"

\* ---- C18 ----
\* The call asks for 100 base units: quantity * factor = 100.
AtReferenceQuantity ==
    /\ PureCallIs("calculate_ingredient_nutrition_for_quantity")
    /\ PureArgs.unit \in UnitEnum
    /\ PureArgs.quantity * conversion_factors[PureArgs.unit] = 100 * 100

\* The result gives the nutrient (in ten-thousandths) with the stored figure
\* (in hundredths).
GivenUnchanged(result, key, figure) ==
    /\ key \in DOMAIN result
    /\ result[key] = figure * 100

\* C18: for a quantity of 100 base units, calculate_ingredient_nutrition_for_quantity
\* returns the calorie figure and every field of the nutrition profile (protein,
\* carbohydrate, sugar, fat, fiber, saturated fat) unchanged.
C18_ScalingIsIdentityAt100 ==
    AtReferenceQuantity =>
        /\ Get(pure_result).status = "returned"
        /\ GivenUnchanged(PureValue, "calories",
                          PureArgs.ingredient.calories_per_100g_or_ml)
        /\ \A field \in DOMAIN ZeroMacros :
             GivenUnchanged(PureValue, field,
                            PureArgs.ingredient.macros_per_100g_or_ml[field])

\* ---- C19, C20 ----
\* The two lists hold the same items, each as many times.
SameItems(a, b) ==
    /\ Len(a) = Len(b)
    /\ \A x \in Range(a) \cup Range(b) :
         Cardinality({i \in 1..Len(a) : a[i] = x})
           = Cardinality({i \in 1..Len(b) : b[i] = x})

SortCallBy(sort_by) ==
    PureCallIs("_sort_shopping_items") /\ PureArgs.sort_by = sort_by

\* C19: sorting by ingredient_name returns the items of the input in ascending
\* order of their lower-cased names, and sorting the result again returns it
\* unchanged.
C19_NameSortIsAscendingAndIdempotent ==
    SortCallBy("ingredient_name") =>
        /\ SameItems(PureValue, PureArgs.items)
        /\ \A i, j \in 1..Len(PureValue) :
             i < j => ~StrLess(Lower(PureValue[j].ingredient_name),
                               Lower(PureValue[i].ingredient_name))
        /\ _sort_shopping_items(PureValue, "ingredient_name") = PureValue

\* C19 witness: "Oats" before "apple" in the input comes out after it (the
\* order of the code points would keep it first).
C19_Witness ==
    /\ SortCallBy("ingredient_name")
    /\ Len(PureArgs.items) = 2
    /\ PureArgs.items[1].ingredient_name = Str_Oats
    /\ PureArgs.items[2].ingredient_name = Str_apple
    /\ PureValue[1].ingredient_name = Str_apple
    /\ PureValue[2].ingredient_name = Str_Oats

\* C20: sorting by quantity returns the items of the input in descending order
\* of float(total_quantity) when every total_quantity parses, and in ascending
\* order of the total_quantity strings when one of them does not.
C20_QuantitySortNumericOrText ==
    SortCallBy("quantity") =>
        /\ SameItems(PureValue, PureArgs.items)
        /\ IF \A i \in 1..Len(PureArgs.items) : CanFloat(PureArgs.items[i].total_quantity)
           THEN \A i, j \in 1..Len(PureValue) :
                  i < j => FloatOf(PureValue[i].total_quantity)
                             >= FloatOf(PureValue[j].total_quantity)
           ELSE \A i, j \in 1..Len(PureValue) :
                  i < j => ~StrLess(PureValue[j].total_quantity,
                                    PureValue[i].total_quantity)

\* C20 witness: "50" before "60" comes out after it: the numbers descend,
\* where the strings ascending would have kept the input's order.
C20_Witness ==
    /\ SortCallBy("quantity")
    /\ Len(PureArgs.items) = 2
    /\ PureArgs.items[1].total_quantity = Str_50
    /\ PureArgs.items[2].total_quantity = Str_60
    /\ PureValue[1].total_quantity = Str_60
    /\ PureValue[2].total_quantity = Str_50

\* ---- C21 ----
HasShop(x) == ~IsNone(x.shop_suggestion)

\* C21: sorting by shop_suggestion returns every item without a shop
\* suggestion after every item with one, whatever the shop names are; the
\* items with a shop are in ascending order of the shop name, and items of the
\* same shop in the order of their lower-cased ingredient names.
C21_NoShopSortsLast ==
    SortCallBy("shop_suggestion") =>
        /\ Get(pure_result).status = "returned"
        /\ \A i, j \in 1..Len(PureValue) :
             i < j =>
               /\ HasShop(PureValue[j]) => HasShop(PureValue[i])
               /\ HasShop(PureValue[i]) /\ HasShop(PureValue[j])
                    => /\ ~StrLess(Get(PureValue[j].shop_suggestion),
                                   Get(PureValue[i].shop_suggestion))
                       /\ PureValue[i].shop_suggestion = PureValue[j].shop_suggestion
                            => ~LessByName(PureValue[j], PureValue[i])

\* ---- C22 ----
HasDates(x) == x.planned_dates # <<>>

\* The earliest of an item's contributing dates.
EarliestDate(x) ==
    CHOOSE d \in {x.planned_dates[n].ord : n \in 1..Len(x.planned_dates)} :
        \A n \in 1..Len(x.planned_dates) : d <= x.planned_dates[n].ord

\* C22: sorting by planned_date completes without error, also for lists that
\* mix items with and without dates, and returns the items in ascending order
\* of the earliest of each item's dates, however the item lists them, with the
\* items without dates last.
C22_DateSortByEarliestDate ==
    SortCallBy("planned_date") =>
        /\ Get(pure_result).status = "returned"
        /\ \A i, j \in 1..Len(PureValue) :
             i < j =>
               /\ HasDates(PureValue[j]) => HasDates(PureValue[i])
               /\ HasDates(PureValue[i]) /\ HasDates(PureValue[j])
                    => EarliestDate(PureValue[i]) <= EarliestDate(PureValue[j])

\* ---- C23 ----
\* text.split("\n")
RECURSIVE SplitLines(_)
SplitLines(text) ==
    IF \A n \in 1..Len(text) : text[n] # 10 THEN <<text>>
    ELSE LET k == CHOOSE n \in 1..Len(text) :
                    text[n] = 10 /\ \A m \in 1..(n - 1) : text[m] # 10
         IN <<SubSeq(text, 1, k - 1)>> \o SplitLines(SubSeq(text, k + 1, Len(text)))

StartsWith(line, prefix) ==
    Len(line) >= Len(prefix) /\ SubSeq(line, 1, Len(prefix)) = prefix

\* The bullet line the export is to print for an item: ingredient, quantity,
\* unit and the shop, if it has one.
ExpectedBullet(item) ==
    <<8226, 32>> \o item.ingredient_name \o <<58, 32>> \o item.total_quantity
      \o <<32>> \o item.unit
      \o (IF IsNone(item.shop_suggestion) THEN <<>>
          ELSE <<32, 40, 97, 116, 32>> \o Get(item.shop_suggestion) \o <<41>>)

\* The section heading an item belongs under.
ExpectedHeading(item) ==
    <<45, 45, 45, 32>>
      \o (IF IsNone(item.category) THEN Str_OTHER ELSE Upper(Get(item.category)))
      \o <<32, 45, 45, 45>>

ExportCall == PureCallIs("export_shopping_list_text")
ExportedItems == PureArgs.shopping_list.items
ExportedLines == SplitLines(PureValue)
BulletAt(lines) == {n \in 1..Len(lines) : StartsWith(lines[n], <<8226, 32>>)}
HeadingAt(lines) == {n \in 1..Len(lines) : StartsWith(lines[n], <<45, 45, 45, 32>>)}

\* The heading line a line stands under: the last one before it (0: none).
HeadingOver(lines, n) ==
    IF \E h \in HeadingAt(lines) : h < n
    THEN CHOOSE h \in HeadingAt(lines) : h < n /\ \A g \in HeadingAt(lines) : g < n => g <= h
    ELSE 0

HasCategories(items) == \E n \in 1..Len(items) : ~IsNone(items[n].category)

\* C23: the exported text has exactly one bullet line per item (ingredient,
\* quantity, unit, shop if any), none dropped and none printed twice: without
\* category labels as a flat list with no section heading, otherwise each item
\* under the heading of its category, the items without a category under a
\* last heading OTHER.
C23_EveryItemOnOneBulletLine ==
    ExportCall =>
      LET lines == ExportedLines
          items == ExportedItems
          Under(item) ==
              {n \in BulletAt(lines) :
                  /\ lines[n] = ExpectedBullet(item)
                  /\ HasCategories(items)
                       => /\ HeadingOver(lines, n) # 0
                          /\ lines[HeadingOver(lines, n)] = ExpectedHeading(item)}
          Alike(item) ==
              {m \in 1..Len(items) :
                  /\ ExpectedBullet(items[m]) = ExpectedBullet(item)
                  /\ items[m].category = item.category}
      IN /\ Cardinality(BulletAt(lines)) = Len(items)
         /\ \A m \in 1..Len(items) :
              Cardinality(Under(items[m])) = Cardinality(Alike(items[m]))
         /\ ~HasCategories(items) => HeadingAt(lines) = {}
         /\ \A h \in HeadingAt(lines) :
              lines[h] = ExpectedHeading([category |-> None])
                => \A g \in HeadingAt(lines) : g <= h

\* C23 witness: a list of a dairy item, a bakery item and an item without a
\* category is exported with the three headings, OTHER the last of them.
C23_Witness ==
    /\ ExportCall
    /\ Len(ExportedItems) = 3
    /\ {ExportedItems[n].category : n \in 1..3} = {None, Some(Str_dairy), Some(Str_bakery)}
    /\ Cardinality(HeadingAt(ExportedLines)) = 3
    /\ Cardinality(BulletAt(ExportedLines)) = 3
    /\ \E n \in BulletAt(ExportedLines) :
         ExportedLines[HeadingOver(ExportedLines, n)] = ExpectedHeading([category |-> None])

\* ---- C24 ----
\* What a call of the kind returns when it runs alone on the input.
RECURSIVE RunLoopAlone(_, _, _)
RunLoopAlone(kind, acc, lines) ==
    IF lines = <<>> THEN acc
    ELSE RunLoopAlone(kind, LoopBody(kind, acc, Head(lines)), Tail(lines))

OutcomesAlone(kind, input) ==
    CallOutcomes(kind, RunLoopAlone(kind, NewAccumulator(kind), input))

\* C24: two calls of aggregate_shopping_items, or two of
\* _calculate_meal_nutrition, share no accumulator: however their steps
\* interleave, each call ends with what it ends with when run alone on its
\* own input, and its accumulator after the loop is the one of the run alone.
C24_CallsShareNoAccumulator ==
    \A c \in CallIds :
        /\ calls.pc[c] > Len(calls.input[c])
             => calls.frames[c]
                  = RunLoopAlone(calls.kind, NewAccumulator(calls.kind), calls.input[c])
        /\ Done(c) => Get(calls.result[c]) \in OutcomesAlone(calls.kind, calls.input[c])

\* C24 witness: two meal-resolution calls on different non-empty inputs were
\* in flight at the same time and both have returned, with different totals.
C24_Witness ==
    /\ calls.kind = "_calculate_meal_nutrition"
    /\ calls.overlapped
    /\ Done(1) /\ Done(2)
    /\ Len(calls.input[1]) = 2 /\ Len(calls.input[2]) = 2
    /\ calls.result[1] # calls.result[2]
    /\ Get(calls.result[1]).calories_total # Some(0)
    /\ Get(calls.result[2]).calories_total # Some(0)

\* ---- C25 ----
\* The totals computed from the lines a meal holds.
RecomputedTotals(meal) ==
    _calculate_meal_nutrition(CHOOSE lines \in ListsOf(meal.ingredients) : TRUE)

\* C25: every stored meal whose is_nutrition_calculated flag is true carries
\* the calories_total and macros_total computed from the composition lines it
\* holds now, after any sequence of create_meal and update_meal calls.
C25_CalculatedTotalsAreNeverStale ==
    \A meal \in meals :
        meal.is_nutrition_calculated
          => /\ meal.calories_total = RecomputedTotals(meal).calories_total
             /\ meal.macros_total = RecomputedTotals(meal).macros_total

\* ---- C26 ----
\* The step is a successful update whose request leaves out the named fields.
UpdatedWithout(fields) ==
    /\ UpdateAnswered
    /\ Get(meal_outcome').status_code = 200
    /\ \A field \in fields : IsNone(Get(meal_request').meal_data[field])

\* The meal of the request, before and after the step.
MealBefore == CHOOSE m \in meals : m.id = Get(meal_request').meal_id
MealAfter == CHOOSE m \in meals' : m.id = Get(meal_request').meal_id

\* C26: an update_meal whose request carries no tags (and no ingredients)
\* leaves the stored tags of the meal as they were, the tags supplied at
\* creation included.
C26_UpdateWithoutTagsKeepsTags ==
    [][UpdatedWithout({"tags", "ingredients"}) => MealAfter.tags = MealBefore.tags]_vars

\* ---- C27 ----
\* The line names an item type that does not exist, or an item the catalog
\* does not hold.
BadLine(line) ==
    \/ line.item_type \notin {"ingredient", "product"}
    \/ line.item_type = "ingredient" /\ line.item_id \notin DOMAIN IngredientStore
    \/ line.item_type = "product" /\ line.item_id \notin DOMAIN ProductStore

\* The composition a create or update request supplies (empty: none).
SuppliedLines(request) ==
    IF request.op = "create" THEN request.meal_data.ingredients
    ELSE IF IsNone(request.meal_data.ingredients) THEN <<>>
    ELSE Get(request.meal_data.ingredients)

\* A step that answers a create_meal, or an update_meal of a stored meal,
\* whose composition holds a bad line.
BadCompositionAnswered ==
    /\ IsNone(meal_request)
    /\ ~IsNone(meal_request')
    /\ Get(meal_request').op = "update"
         => \E m \in meals : m.id = Get(meal_request').meal_id
    /\ \E n \in 1..Len(SuppliedLines(Get(meal_request'))) :
         BadLine(SuppliedLines(Get(meal_request'))[n])

\* C27: create_meal, and update_meal of a stored meal with ingredients
\* supplied, fail with MealValidationError (answered 400) when a line names an
\* unknown ingredient, an unknown product or another item type, and leave the
\* stored meals as they were.
C27_BadCompositionIsRejected ==
    [][BadCompositionAnswered
         => /\ Get(meal_outcome').status_code = 400
            /\ meals' = meals]_vars

\* C27 witness: an update of a stored meal that holds lines, with a line of
\* item type "recipe", was answered 400.
C27_Witness ==
    /\ ~IsNone(meal_request)
    /\ ~IsNone(meal_outcome)
    /\ Get(meal_request).op = "update"
    /\ Get(meal_outcome).status_code = 400
    /\ \E n \in 1..Len(SuppliedLines(Get(meal_request))) :
         SuppliedLines(Get(meal_request))[n].item_type = "recipe"
    /\ \E m \in meals : m.id = Get(meal_request).meal_id /\ m.ingredients # {}

\* ---- C28 ----
\* A step that answers an update of a stored meal whose request leaves out
\* the ingredients.
UpdateWithoutLinesAnswered ==
    /\ UpdateAnswered
    /\ IsNone(Get(meal_request').meal_data.ingredients)

\* The request's value of the field is the stored one after the step.
Applied(field) ==
    ~IsNone(Get(meal_request').meal_data[field])
      => MealAfter[field] = (IF field = "is_nutrition_calculated"
                             THEN Get(Get(meal_request').meal_data[field])
                             ELSE Get(meal_request').meal_data[field])

\* C28: an update_meal whose request leaves out the ingredients leaves the
\* stored composition lines of the meal exactly as they were and, unless the
\* database fails (answered 404), succeeds and applies the fields the request
\* does supply (the totals, the flag).
C28_UpdateWithoutLinesKeepsLines ==
    [][UpdateWithoutLinesAnswered
         => /\ MealAfter.ingredients = MealBefore.ingredients
            /\ Get(meal_outcome').status_code # 404
                 => /\ Get(meal_outcome').status_code = 200
                    /\ Applied("calories_total")
                    /\ Applied("macros_total")
                    /\ Applied("is_nutrition_calculated")]_vars

\* ---- C29 ----
SortCall == PureCallIs("_sort_shopping_items")

\* The two items have the same sort key in the call.
EqualSortKeys(x, y) ==
    LET sort_by == PureArgs.sort_by
    IN IF sort_by = "ingredient_name"
       THEN Lower(x.ingredient_name) = Lower(y.ingredient_name)
       ELSE IF sort_by = "shop_suggestion"
       THEN ShopKey(x) = ShopKey(y) /\ Lower(x.ingredient_name) = Lower(y.ingredient_name)
       ELSE IF sort_by = "quantity"
       THEN IF \A n \in 1..Len(PureArgs.items) : CanFloat(PureArgs.items[n].total_quantity)
            THEN FloatOf(x.total_quantity) = FloatOf(y.total_quantity)
            ELSE x.total_quantity = y.total_quantity
       ELSE IF sort_by = "meal_name" THEN MealKey(x) = MealKey(y)
       ELSE IF sort_by = "planned_date" THEN DateKey(x) = DateKey(y)
       ELSE TRUE

\* The occurrences of the two items, in the order of the list.
Among(items, x, y) == SelectSeq(items, LAMBDA item : item = x \/ item = y)

\* C29: for every sort key and every input list _sort_shopping_items returns
\* the items of the input, each as many times, none altered, with the items of
\* equal sort key in their input order; a list whose items all have empty
\* planned_meals and planned_dates comes back unchanged from the sorts by
\* meal_name and by planned_date.
C29_SortReturnsStablePermutation ==
    SortCall =>
        /\ Get(pure_result).status = "returned"
        /\ SameItems(PureValue, PureArgs.items)
        /\ \A x, y \in Range(PureArgs.items) :
             EqualSortKeys(x, y) => Among(PureValue, x, y) = Among(PureArgs.items, x, y)
        /\ (/\ PureArgs.sort_by \in {"meal_name", "planned_date"}
            /\ \A n \in 1..Len(PureArgs.items) :
                 /\ PureArgs.items[n].planned_meals = <<>>
                 /\ PureArgs.items[n].planned_dates = <<>>)
             => PureValue = PureArgs.items

\* ---- C30 ----
\* The outputs that runs of the sort on the lists the aggregation builds from
\* the argument can give: one per order in which list(a_set) lists the meals
\* and the dates of an item.
PipelineOutputs(sort_by) ==
    {_sort_shopping_items(items, sort_by) : items \in ItemLists(aggregated)}

\* C30: the aggregation followed by the sort by any key gives an output, and
\* the same ordered output in every run on the same argument list, the order
\* of each item's planned_meals and planned_dates included.
C30_PipelineIsDeterministic ==
    AggDone =>
        /\ agg_result.status = "returned"
        /\ \A sort_by \in SortKeys : Cardinality(PipelineOutputs(sort_by)) = 1
====
